---------------------------- MODULE Spec2Model ----------------------------
(***************************************************************************)
(* A model of benlink's HT message codec and resynchronizing stream        *)
(* decoder (fix_log.py), of the replay loop that feeds one decoder per    *)
(* direction (fix_log.py), of the handler fan-out / request-reply layer    *)
(* of AudioConnection (src/benlink/audio.py), and of the connection guard  *)
(* of RadioClient (src/benlink/client.py).                                 *)
(*                                                                         *)
(* Bytes are the integers 0..255; a bytes object is a sequence of them.    *)
(* A message is a record whose tag field names its NamedTuple class and    *)
(* whose other fields are the class's fields under the source's names.     *)
(***************************************************************************)
EXTENDS Integers, Sequences, FiniteSets, TLC

VARIABLES
    \* --- codec pipeline (pure functions applied to a drawn input) ---
    value,         \* the HTMessage given to the encoders (NoMessage: raw input)
    body,          \* value.to_message_body()
    body_decoded,  \* <class of value>.from_message_body(body)
    frame,         \* the buffer given to decode_ht_message
    decoded,       \* decode_ht_message(frame)
    reencoded,     \* encode_ht_message(decoded message)
    stage,         \* how far the pipeline has run
    \* --- HTMessageStream, fed by the transport ---
    _buffer,       \* HTMessageStream._buffer
    sent,          \* what the peer put on the wire: garbage, then the frames of msgs
    wire,          \* the bytes of it the transport has not delivered yet
    feeds,         \* the number of feed calls made: 0, 1, or 2 for more
    last,          \* the outcome of the last feed call: returned list or raised error
    frames,        \* the frames a peer sent back to back, whole, when it sent such a batch
    \* --- the replay loop: one HTMessageStream per direction ---
    phone_to_radio, \* phone_to_radio._buffer
    radio_to_phone, \* radio_to_phone._buffer
    halted,        \* the loop has left through break
    rows,          \* history: the rows read so far, each with what its feed call gave
    \* --- AudioConnection ---
    _handlers,     \* AudioConnection._handlers, in list order
    link_callback, \* the callback the link holds: "none" until connect() passes on_msg
    pc,            \* where each _send_message_expect_reply call stands
    reply,         \* the reply class each call was given
    queue,         \* each call's asyncio.Queue
    out,           \* what each finished call returned
    gone,          \* history: the user callbacks registered once and unregistered since
    disconnected,  \* disconnect() has completed
    log,           \* history: the messages the link has handed to on_msg, in order
    reg_at,        \* history: Len(log) when each call registered on_ack
    overlapped,    \* history: calls in flight together with a call for the same class
    dispatch,      \* history: the last run of on_msg
    \* --- RadioClient ---
    _is_connected, \* RadioClient._is_connected
    _conn,         \* the client's connection: open or not, and how many times
                   \* _on_event_message is registered on it
    _device_info,  \* RadioClient._device_info
    _channels,     \* RadioClient._channels (<<>> also before it is first set)
    _settings,     \* RadioClient._settings
    _packet_settings, \* RadioClient._packet_settings
    _message_handler_unsubscribe, \* "unset", "live", or "called" once it was called
    life,          \* where the connect() or disconnect() call under way stands
    setter,        \* the setter call suspended in its await, if any
    connects,      \* the number of connect() calls made
    steps,         \* history: what connect() has done since the last completed disconnect()
    ended,         \* history: how the last connect() or disconnect() call ended
    call           \* history: the last accessor, setter or battery call made

codec_vars == <<value, body, body_decoded, frame, decoded, reencoded, stage>>

stream_vars == <<_buffer, sent, wire, feeds, last, frames>>

replay_vars == <<phone_to_radio, radio_to_phone, halted, rows>>

conn_vars ==
    <<_handlers, link_callback, pc, reply, queue, out, gone, disconnected, log, reg_at,
      overlapped, dispatch>>

client_vars ==
    <<_is_connected, _conn, _device_info, _channels, _settings, _packet_settings,
      _message_handler_unsubscribe, life, setter, connects, steps, ended, call>>

vars == <<codec_vars, stream_vars, replay_vars, conn_vars, client_vars>>

-----------------------------------------------------------------------------
(* Bounds of the model. *)

\* longest chunk_data / channel_data / UnknownMessage.data that is drawn
MaxData == 1
\* longest run of bytes that follows a drawn raw 8-byte header
MaxTail == 2
\* most frames put on the wire
MaxFrames == 1
\* most frames a peer sends back to back in a batch
MaxBatch == 2
\* most rows the replay loop reads
MaxRows == 3
\* user event handlers that may be registered
MaxHandlers == 2
\* _send_message_expect_reply calls that may be made
MaxCalls == 2
\* messages the link may deliver
MaxMessages == 2
\* largest channel_count a radio reports
MaxChannels == 1
\* connect() calls that may be made on a RadioClient
MaxConnects == 2

-----------------------------------------------------------------------------
(* Program constants. *)

START_FLAG == 255
HEADER_LEN == 8
FINAL_BIT == 128

-----------------------------------------------------------------------------
(* bytes helpers: slicing as Python's b[:n] and b[n:]                      *)

Take(b, n) == SubSeq(b, 1, IF n > Len(b) THEN Len(b) ELSE n)

Drop(b, n) == SubSeq(b, n + 1, Len(b))

SeqsUpTo(S, n) == UNION {[1..k -> S] : k \in 0..n}

-----------------------------------------------------------------------------
(* Results.  A call either returns or raises; what it raises is kept as    *)
(* the kind of the result.                                                 *)

NoMessage == [tag |-> "None"]

Returned(m, rest) == [kind |-> "return", msg |-> m, rest |-> rest]

\* raise HeaderDecodeError(f"Expected byte[i](field) = ..., got ...", buffer)
HeaderDecodeError(field) ==
    [kind |-> "HeaderDecodeError", msg |-> NoMessage, rest |-> <<>>, field |-> field]

\* raise BodyDecodeError(type_str, message, body)
BodyDecodeError(b) ==
    [kind |-> "BodyDecodeError", msg |-> NoMessage, rest |-> <<>>, body |-> b]

-----------------------------------------------------------------------------
(* The message classes: from_message_body / to_message_body.               *)

\* UnknownMessage.from_message_body(body, message_type_id)
UnknownMessage_from_message_body(b, type_id) ==
    Returned([tag |-> "UnknownMessage", message_type_id |-> type_id, data |-> b], <<>>)

\* UnknownMessage.to_message_body
UnknownMessage_to_message_body(m) == m.data

\* SetDigitalMessageUpdates.from_message_body
SetDigitalMessageUpdates_from_message_body(b) ==
    IF Len(b) # 1 THEN BodyDecodeError(b)
    ELSE IF b[1] \notin {0, 1} THEN BodyDecodeError(b)
    ELSE Returned([tag |-> "SetDigitalMessageUpdates", enabled |-> (b[1] = 1)], <<>>)

\* SetDigitalMessageUpdates.to_message_body
SetDigitalMessageUpdates_to_message_body(m) == <<IF m.enabled THEN 1 ELSE 0>>

\* ChannelInfoRequest.from_message_body
ChannelInfoRequest_from_message_body(b) ==
    IF Len(b) # 1 THEN BodyDecodeError(b)
    ELSE Returned([tag |-> "ChannelInfoRequest", channel_id |-> b[1]], <<>>)

\* ChannelInfoRequest.to_message_body
ChannelInfoRequest_to_message_body(m) == <<m.channel_id>>

\* ChannelInfoResponse.from_message_body
ChannelInfoResponse_from_message_body(b) ==
    IF Len(b) < 2 THEN BodyDecodeError(b)
    ELSE Returned([tag |-> "ChannelInfoResponse",
                   action_id |-> b[1],
                   channel_id |-> b[2],
                   channel_data |-> Drop(b, 2)], <<>>)

\* ChannelInfoResponse.to_message_body: the first byte is the literal 0x00
ChannelInfoResponse_to_message_body(m) == <<0, m.channel_id>> \o m.channel_data

\* chunk_info & 0x80 == 0x80, on a byte
HasFinalBit(chunk_info) == (chunk_info \div FINAL_BIT) % 2 = 1

\* chunk_info & 0x7f, on a byte
LowSeven(chunk_info) == chunk_info % FINAL_BIT

\* RadioReceivedAprsChunk.from_message_body
RadioReceivedAprsChunk_from_message_body(b) ==
    IF Len(b) < 2 THEN BodyDecodeError(b)
    ELSE LET decode_status_id == b[1]
             chunk_info == b[2]
         IN  IF decode_status_id \notin {1, 2} THEN BodyDecodeError(b)
             ELSE Returned([tag |-> "RadioReceivedAprsChunk",
                            chunk_data |-> Drop(b, 2),
                            chunk_num |-> LowSeven(chunk_info),
                            decode_status |-> IF decode_status_id = 1 THEN "error" ELSE "ok",
                            is_final_chunk |-> HasFinalBit(chunk_info)], <<>>)

\* RadioReceivedAprsChunk.to_message_body: chunk_num | (0x80 if is_final_chunk else 0x00)
RadioReceivedAprsChunk_to_message_body(m) ==
    LET chunk_info == IF m.is_final_chunk /\ ~HasFinalBit(m.chunk_num)
                      THEN m.chunk_num + FINAL_BIT
                      ELSE m.chunk_num
        decode_status_id == IF m.decode_status = "error" THEN 1 ELSE 2
    IN  <<decode_status_id, chunk_info>> \o m.chunk_data

\* msg.to_message_body(), by the class of msg
to_message_body(m) ==
    CASE m.tag = "RadioReceivedAprsChunk" -> RadioReceivedAprsChunk_to_message_body(m)
      [] m.tag = "ChannelInfoRequest" -> ChannelInfoRequest_to_message_body(m)
      [] m.tag = "ChannelInfoResponse" -> ChannelInfoResponse_to_message_body(m)
      [] m.tag = "SetDigitalMessageUpdates" -> SetDigitalMessageUpdates_to_message_body(m)
      [] m.tag = "UnknownMessage" -> UnknownMessage_to_message_body(m)

\* <class of m>.from_message_body(b): the body decoder of m's own class
from_message_body(m, b) ==
    CASE m.tag = "RadioReceivedAprsChunk" -> RadioReceivedAprsChunk_from_message_body(b)
      [] m.tag = "ChannelInfoRequest" -> ChannelInfoRequest_from_message_body(b)
      [] m.tag = "ChannelInfoResponse" -> ChannelInfoResponse_from_message_body(b)
      [] m.tag = "SetDigitalMessageUpdates" -> SetDigitalMessageUpdates_from_message_body(b)
      [] m.tag = "UnknownMessage" -> UnknownMessage_from_message_body(b, m.message_type_id)

-----------------------------------------------------------------------------
(* The frame codec.                                                        *)

\* message_type_id with the UnknownMessage case returning a fixed id
message_type_id_fixed_unknown(m) ==
    CASE m.tag = "RadioReceivedAprsChunk" -> <<0, 9>>
      [] m.tag = "ChannelInfoRequest" -> <<0, 13>>
      [] m.tag = "ChannelInfoResponse" -> <<0, 14>>
      [] m.tag = "SetDigitalMessageUpdates" -> <<0, 6>>
      [] m.tag = "UnknownMessage" -> <<0, 0>>

\* message_type_id(msg)
message_type_id(m) ==
    CASE m.tag = "RadioReceivedAprsChunk" -> <<0, 9>>
      [] m.tag = "ChannelInfoRequest" -> <<0, 13>>
      [] m.tag = "ChannelInfoResponse" -> <<0, 14>>
      [] m.tag = "SetDigitalMessageUpdates" -> <<0, 6>>
      [] m.tag = "UnknownMessage" -> m.message_type_id

\* encode_ht_message(msg); bytes([... len(body) ...]) needs len(body) <= 255,
\* which every body drawn here satisfies
encode_ht_message(m) ==
    LET b == to_message_body(m)
    IN  <<START_FLAG, 1, 0, Len(b), 0, 2>> \o message_type_id(m) \o b

\* HeaderCheck without the check of reserved_2
HeaderCheck_no_reserved_2(header) ==
    IF header[1] # START_FLAG THEN "start_flag"
    ELSE IF header[2] # 1 THEN "constant_1"
    ELSE IF header[3] # 0 THEN "reserved_1"
    ELSE IF header[6] # 2 THEN "constant_2"
    ELSE "ok"

\* the checks of the header's constant fields, in the order decode_ht_message
\* makes them; "ok" when all pass
HeaderCheck(header) ==
    IF header[1] # START_FLAG THEN "start_flag"
    ELSE IF header[2] # 1 THEN "constant_1"
    ELSE IF header[3] # 0 THEN "reserved_1"
    ELSE IF header[5] # 0 THEN "reserved_2"
    ELSE IF header[6] # 2 THEN "constant_2"
    ELSE "ok"

\* the type ids the match on message_type_id names
DispatchedTypeIds == {<<0, 9>>, <<0, 13>>, <<128, 13>>, <<0, 6>>}

\* DecodeBody with no fallback case: an id that no case names is rejected
DecodeBody_no_fallback(type_id, b) ==
    CASE type_id = <<0, 9>> -> RadioReceivedAprsChunk_from_message_body(b)
      [] type_id = <<0, 13>> -> ChannelInfoRequest_from_message_body(b)
      [] type_id = <<128, 13>> -> ChannelInfoResponse_from_message_body(b)
      [] type_id = <<0, 6>> -> SetDigitalMessageUpdates_from_message_body(b)
      [] OTHER -> BodyDecodeError(b)

\* the match on message_type_id that selects the body decoder
DecodeBody(type_id, b) ==
    CASE type_id = <<0, 9>> -> RadioReceivedAprsChunk_from_message_body(b)
      [] type_id = <<0, 13>> -> ChannelInfoRequest_from_message_body(b)
      [] type_id = <<128, 13>> -> ChannelInfoResponse_from_message_body(b)
      [] type_id = <<0, 6>> -> SetDigitalMessageUpdates_from_message_body(b)
      [] OTHER -> UnknownMessage_from_message_body(b, type_id)

\* decode_ht_message(buffer): (None, buffer) is Returned(NoMessage, ...)
decode_ht_message(buffer) ==
    IF Len(buffer) < HEADER_LEN THEN Returned(NoMessage, buffer)
    ELSE LET header == Take(buffer, HEADER_LEN)
             rest == Drop(buffer, HEADER_LEN)
             body_length == header[4]
             type_id == <<header[7], header[8]>>
             check == HeaderCheck(header)
         IN  IF check # "ok" THEN HeaderDecodeError(check)
             ELSE IF body_length > Len(rest) THEN Returned(NoMessage, rest)
             ELSE LET r == DecodeBody(type_id, Take(rest, body_length))
                  IN  IF r.kind = "return"
                      THEN Returned(r.msg, Drop(rest, body_length))
                      ELSE r

-----------------------------------------------------------------------------
(* AudioConnection: the handler list, on_msg and _send_message_expect_reply *)

\* the user callbacks given to register_event_handler
EventHandlers == 1..MaxHandlers

\* the _send_message_expect_reply calls
Calls == 1..MaxCalls

\* AudioEvent = AudioData | AudioEnd | AudioError
AudioEvent == {"AudioData", "AudioEnd", "AudioError"}

\* AudioMessage = AudioEvent | AudioAck
AudioMessage == AudioEvent \cup {"AudioAck"}

\* the classes of the messages delivered and awaited here: one that is an
\* AudioEvent and the one that is not
Classes == {"AudioData", "AudioAck"}

\* what a user callback does when called: return, raise, or call the
\* unregister function that register_event_handler gave it
Behaviours == {"return", "raise", "unregister"}

NoAudio == [class |-> "None", n |-> 0]

\* audio_message_from_protocol(proto): a new message of the class of the same
\* name with the same content; n stands for the content and the identity
audio_message_from_protocol(proto) ==
    CASE proto.p_class = "p.AudioData" -> [class |-> "AudioData", n |-> proto.n]
      [] proto.p_class = "p.AudioEnd" -> [class |-> "AudioEnd", n |-> proto.n]
      [] proto.p_class = "p.AudioAck" -> [class |-> "AudioAck", n |-> proto.n]
      [] proto.p_class = "p.AudioError" -> [class |-> "AudioError", n |-> proto.n]

\* the on_message closure register_event_handler makes for user callback h
OnMessage(h) == [kind |-> "on_message", id |-> h]

\* the on_ack closure of call c
OnAck(c) == [kind |-> "on_ack", id |-> c]

NoHandler == [kind |-> "none", id |-> 0]

\* remove_handler that drops the last element of the list, whichever it is
remove_handler_pops_last(hs, h) == SubSeq(hs, 1, Len(hs) - 1)

\* self._handlers.remove(handler): the list without its first occurrence
remove_handler(hs, h) ==
    LET i == CHOOSE k \in 1..Len(hs) : hs[k] = h /\ \A j \in 1..(k - 1) : hs[j] # h
    IN  SubSeq(hs, 1, i - 1) \o SubSeq(hs, i + 1, Len(hs))

\* self._handlers.append(handler)
append_handler(hs, h) == Append(hs, h)

\* on_ack with one slot per reply class shared by the calls: a message that
\* a call already holds is not put again
on_ack_shared_slot(c, msg, qs, rp) ==
    IF msg.class = rp[c] /\ \A d \in DOMAIN qs : \A k \in 1..Len(qs[d]) : qs[d][k] # msg
    THEN [qs EXCEPT ![c] = Append(@, msg)]
    ELSE qs

\* on_ack(msg) of call c: queue.put_nowait(msg) if isinstance(msg, reply)
on_ack(c, msg, qs, rp) ==
    IF msg.class = rp[c] THEN [qs EXCEPT ![c] = Append(@, msg)] ELSE qs

\* on_msg's "for handler in self._handlers: handler(...)": the list iterator
\* is at 0-based index i of the list as it is now; a raise leaves the loop
\* and on_msg.  beh[h] is what user callback h does if called.
RECURSIVE OnMsgLoop(_, _, _, _, _, _, _)
OnMsgLoop(proto, hs, i, qs, invoked, rp, beh) ==
    IF i >= Len(hs)
    THEN [handlers |-> hs, queues |-> qs, invoked |-> invoked,
          raised_by |-> NoHandler, propagated |-> FALSE]
    ELSE LET handler == hs[i + 1]
             msg == audio_message_from_protocol(proto)
             called == Append(invoked, handler)
         IN  IF handler.kind = "on_ack"
             THEN OnMsgLoop(proto, hs, i + 1, on_ack(handler.id, msg, qs, rp), called, rp, beh)
             ELSE IF msg.class \notin AudioEvent \/ beh[handler.id] = "return"
             THEN OnMsgLoop(proto, hs, i + 1, qs, called, rp, beh)
             ELSE IF beh[handler.id] = "unregister"
             THEN OnMsgLoop(proto, remove_handler(hs, handler), i + 1, qs, called, rp, beh)
             ELSE [handlers |-> hs, queues |-> qs, invoked |-> called,
                   raised_by |-> handler, propagated |-> TRUE]

\* on_msg(msg), the callback connect() gives the link
on_msg(proto, hs, qs, rp, beh) == OnMsgLoop(proto, hs, 0, qs, <<>>, rp, beh)

NoDispatch ==
    [msg |-> NoAudio, before |-> <<>>, after |-> <<>>, invoked |-> <<>>,
     raised_by |-> NoHandler, propagated |-> FALSE]

\* a cached value that was never assigned
Unset == [tag |-> "unset"]

NoSetter == [op |-> "none", channel_id |-> 0, connected |-> FALSE]

NoCall ==
    [op |-> "none", connected |-> FALSE, result |-> "none", contacted |-> FALSE,
     changed |-> FALSE]

\* RadioClient(device_uuid): _is_connected is the class attribute False, the
\* cached values are not assigned, the connection is not open
ClientFresh ==
    /\ _is_connected = FALSE
    /\ _conn = [open |-> FALSE, handlers |-> 0]
    /\ _device_info = Unset
    /\ _channels = <<>>
    /\ _settings = "unset"
    /\ _packet_settings = "unset"
    /\ _message_handler_unsubscribe = "unset"
    /\ life = "idle"
    /\ setter = NoSetter
    /\ connects = 0
    /\ steps = {}
    /\ ended = "none"
    /\ call = NoCall

\* AudioConnection(link), not connected, no call made
ConnFresh ==
    /\ _handlers = <<>>
    /\ link_callback = "none"
    /\ pc = [c \in Calls |-> "idle"]
    /\ reply = [c \in Calls |-> "None"]
    /\ queue = [c \in Calls |-> <<>>]
    /\ out = [c \in Calls |-> NoAudio]
    /\ gone = {}
    /\ disconnected = FALSE
    /\ log = <<>>
    /\ reg_at = [c \in Calls |-> 0]
    /\ overlapped = {}
    /\ dispatch = NoDispatch

-----------------------------------------------------------------------------
(* The inputs the codec pipeline is run on.                                *)

\* payload bytes: a printable byte and the start marker
DataBytes == {65, START_FLAG}

ChannelIds == {0, 5, 255}

ActionIds == {0, 1, 3, 128, 255}

ChunkNums == 0..(FINAL_BIT - 1)

\* the two bytes of a type id: those of the dispatched ids and others
TypeIdHigh == {0, 1, 128}

TypeIdLow == {1, 6, 9, 13, 14}

Payloads == SeqsUpTo(DataBytes, MaxData)

AprsValues ==
    {[tag |-> "RadioReceivedAprsChunk", chunk_data |-> d, chunk_num |-> n,
      decode_status |-> st, is_final_chunk |-> f] :
        d \in Payloads, n \in ChunkNums, st \in {"ok", "error"}, f \in BOOLEAN}

RequestValues == {[tag |-> "ChannelInfoRequest", channel_id |-> c] : c \in ChannelIds}

ResponseValues ==
    {[tag |-> "ChannelInfoResponse", action_id |-> a, channel_id |-> c, channel_data |-> d] :
        a \in ActionIds, c \in ChannelIds, d \in Payloads}

UpdatesValues == {[tag |-> "SetDigitalMessageUpdates", enabled |-> e] : e \in BOOLEAN}

UnknownValues ==
    {[tag |-> "UnknownMessage", message_type_id |-> <<h, l>>, data |-> d] :
        h \in TypeIdHigh, l \in TypeIdLow, d \in Payloads}

Values == AprsValues \cup RequestValues \cup ResponseValues \cup UpdatesValues \cup UnknownValues

\* bytes that follow a raw header: they make each body decoder accept and reject
TailBytes == {0, 1, 129}

\* raw 8-byte headers: every field right or wrong, body_length up to past the tail
\* and the largest a byte holds
RawHeaders ==
    {<<s, c1, r1, n, r2, c2, h, l>> :
        s \in {START_FLAG, 0}, c1 \in {1, 2}, r1 \in {0, 1},
        n \in (0..(MaxTail + 1)) \cup {255},
        r2 \in {0, 1}, c2 \in {2, 1}, h \in TypeIdHigh, l \in TypeIdLow}

RawBuffers ==
    {hd \o tl : hd \in RawHeaders, tl \in SeqsUpTo(TailBytes, MaxTail)}
        \cup {Take(<<START_FLAG, 1, 0, 0, 0, 2, 1, 1>>, k) : k \in 0..(HEADER_LEN - 1)}

-----------------------------------------------------------------------------
(* The codec pipeline: a drawn value is encoded and decoded again, a drawn *)
(* buffer is decoded and encoded again.                                    *)

NoResult == [kind |-> "unset"]

\* the codec pipeline runs with no stream decoder
StreamIdle ==
    /\ _buffer = <<>>
    /\ sent = [garbage |-> <<>>, msgs |-> <<>>]
    /\ wire = <<>>
    /\ feeds = 0
    /\ last = [kind |-> "none", messages |-> <<>>]
    /\ frames = <<>>

\* the directions the replay loop knows
Dirs == {"phone->radio", "radio->phone"}

\* the replay loop is not run
ReplayIdle ==
    /\ phone_to_radio = <<>>
    /\ radio_to_phone = <<>>
    /\ halted = FALSE
    /\ rows = <<>>

CodecInit ==
    /\ ClientFresh
    /\ StreamIdle
    /\ ReplayIdle
    /\ ConnFresh
    /\ body = <<>>
    /\ body_decoded = NoResult
    /\ decoded = NoResult
    /\ reencoded = <<>>
    /\ \/ /\ value \in Values
          /\ frame = <<>>
          /\ stage = "value"
       \/ /\ value = NoMessage
          /\ frame \in RawBuffers
          /\ stage = "buffer"

\* body = value.to_message_body()
ToMessageBody ==
    /\ stage = "value"
    /\ body' = to_message_body(value)
    /\ stage' = "body"
    /\ UNCHANGED <<value, body_decoded, frame, decoded, reencoded, stream_vars, replay_vars, conn_vars,
                 client_vars>>

\* body_decoded = type(value).from_message_body(body)
FromMessageBody ==
    /\ stage = "body"
    /\ body_decoded' = from_message_body(value, body)
    /\ stage' = "body_decoded"
    /\ UNCHANGED <<value, body, frame, decoded, reencoded, stream_vars, replay_vars, conn_vars,
                 client_vars>>

\* frame = encode_ht_message(value)
Encode ==
    /\ stage = "body_decoded"
    /\ frame' = encode_ht_message(value)
    /\ stage' = "encoded"
    /\ UNCHANGED <<value, body, body_decoded, decoded, reencoded, stream_vars, replay_vars, conn_vars,
                 client_vars>>

\* decoded = decode_ht_message(frame)
Decode ==
    /\ stage \in {"encoded", "buffer"}
    /\ decoded' = decode_ht_message(frame)
    /\ stage' = "decoded"
    /\ UNCHANGED <<value, body, body_decoded, frame, reencoded, stream_vars, replay_vars, conn_vars,
                 client_vars>>

\* reencoded = encode_ht_message(msg) for the msg that decode_ht_message returned
ReEncode ==
    /\ stage = "decoded"
    /\ decoded.kind = "return"
    /\ decoded.msg # NoMessage
    /\ reencoded' = encode_ht_message(decoded.msg)
    /\ stage' = "reencoded"
    /\ UNCHANGED <<value, body, body_decoded, frame, decoded, stream_vars, replay_vars, conn_vars,
                 client_vars>>

CodecNext ==
    \/ ToMessageBody
    \/ FromMessageBody
    \/ Encode
    \/ Decode
    \/ ReEncode

CodecSpec == CodecInit /\ [][CodecNext]_vars

-----------------------------------------------------------------------------
(* HTMessageStream.                                                        *)

\* self._buffer.find(b"\xff"): the 0-based index of the first 0xFF, or -1
Find(b) ==
    IF \E i \in 1..Len(b) : b[i] = START_FLAG
    THEN (CHOOSE i \in 1..Len(b) : b[i] = START_FLAG /\ \A j \in 1..(i - 1) : b[j] # START_FLAG) - 1
    ELSE -1

\* the while loop of feed, from self._buffer = buf with messages decoded so
\* far; the result is self._buffer when feed ends and what feed returns or
\* raises.  A raise leaves from inside decode_ht_message, before the tuple
\* assignment to self._buffer, and the list of messages is dropped.
RECURSIVE FeedLoop(_, _)
FeedLoop(buf, messages) ==
    IF Len(buf) < HEADER_LEN
    THEN [buffer |-> buf, kind |-> "return", messages |-> messages]
    ELSE IF buf[1] # START_FLAG
    THEN LET idx == Find(buf)
         IN  FeedLoop(IF idx = -1 THEN <<>> ELSE Drop(buf, idx), messages)
    ELSE LET r == decode_ht_message(buf)
         IN  IF r.kind # "return"
             THEN [buffer |-> buf, kind |-> r.kind, messages |-> <<>>]
             ELSE IF r.msg = NoMessage
             THEN [buffer |-> r.rest, kind |-> "return", messages |-> messages]
             ELSE FeedLoop(r.rest, Append(messages, r.msg))

\* feed with "if" in place of "while": at most one frame is decoded per call
feed_decodes_once(buf, data) ==
    LET b == buf \o data
        r == decode_ht_message(b)
    IN  IF Len(b) < HEADER_LEN \/ b[1] # START_FLAG THEN FeedLoop(b, <<>>)
        ELSE IF r.kind # "return" THEN [buffer |-> b, kind |-> r.kind, messages |-> <<>>]
        ELSE IF r.msg = NoMessage THEN [buffer |-> r.rest, kind |-> "return", messages |-> <<>>]
        ELSE [buffer |-> r.rest, kind |-> "return", messages |-> <<r.msg>>]

\* HTMessageStream.feed(data) on a stream whose _buffer is buf
feed(buf, data) == FeedLoop(buf \o data, <<>>)

-----------------------------------------------------------------------------
(* The stream decoder fed by a transport that delivers the wire's bytes in *)
(* order, in chunks of any size.                                           *)

\* garbage prefixes: none, without a start marker, ending in one (the
\* 00 00 FF of the resync scenario), and with one inside
Garbage == {<<>>, <<0>>, <<0, 0>>, <<0, 0, START_FLAG>>, <<0, START_FLAG, 0>>}

\* payloads of the messages a peer sends: runs of the start marker byte
StreamPayloads == SeqsUpTo({START_FLAG}, MaxData)

\* the messages a peer sends: some of each class, with bodies of 0 to
\* 2 + MaxData bytes
StreamValues ==
    {[tag |-> "RadioReceivedAprsChunk", chunk_data |-> d, chunk_num |-> 1,
      decode_status |-> "ok", is_final_chunk |-> TRUE] : d \in StreamPayloads}
    \cup {[tag |-> "ChannelInfoRequest", channel_id |-> 5]}
    \cup {[tag |-> "ChannelInfoResponse", action_id |-> 3, channel_id |-> 5, channel_data |-> <<>>]}
    \cup UpdatesValues
    \cup {[tag |-> "UnknownMessage", message_type_id |-> <<1, 1>>, data |-> d] : d \in StreamPayloads}

RECURSIVE EncodeAll(_)
\* the frames of msgs, one after the other
EncodeAll(msgs) ==
    IF msgs = <<>> THEN <<>>
    ELSE encode_ht_message(Head(msgs)) \o EncodeAll(Tail(msgs))

\* the codec pipeline is not run
CodecIdle ==
    /\ value = NoMessage
    /\ body = <<>>
    /\ body_decoded = NoResult
    /\ frame = <<>>
    /\ decoded = NoResult
    /\ reencoded = <<>>
    /\ stage = "idle"

\* HTMessageStream(): a fresh decoder, and what will arrive for it
StreamInit ==
    /\ ClientFresh
    /\ CodecIdle
    /\ ReplayIdle
    /\ ConnFresh
    /\ frames = <<>>
    /\ _buffer = <<>>
    /\ \E g \in Garbage, k \in 1..MaxFrames :
         \E msgs \in [1..k -> StreamValues] :
            /\ sent = [garbage |-> g, msgs |-> msgs]
            /\ wire = g \o EncodeAll(msgs)
    /\ feeds = 0
    /\ last = [kind |-> "none", messages |-> <<>>]

\* the transport delivers the next n bytes: messages = stream.feed(data)
Feed ==
    \E n \in 1..Len(wire) :
        LET r == feed(_buffer, Take(wire, n))
        IN  /\ _buffer' = r.buffer
            /\ last' = [kind |-> r.kind, messages |-> r.messages]
            /\ wire' = Drop(wire, n)
            /\ feeds' = IF feeds = 0 THEN 1 ELSE 2
            /\ UNCHANGED <<sent, frames, codec_vars, replay_vars, conn_vars, client_vars>>

StreamNext == Feed

StreamSpec == StreamInit /\ [][StreamNext]_vars

-----------------------------------------------------------------------------
(* The stream decoder given whole frames back to back: frames that decode  *)
(* and frames whose body the decoder of their class rejects.               *)

\* frames that decode_ht_message decodes: one of each dispatched id and one
\* of another id, with bodies of 0 to 3 bytes
GoodFrames ==
    {encode_ht_message([tag |-> "ChannelInfoRequest", channel_id |-> 5]),
     encode_ht_message([tag |-> "SetDigitalMessageUpdates", enabled |-> TRUE]),
     encode_ht_message([tag |-> "UnknownMessage", message_type_id |-> <<1, 1>>, data |-> <<>>]),
     encode_ht_message([tag |-> "RadioReceivedAprsChunk", chunk_data |-> <<START_FLAG>>,
                        chunk_num |-> 1, decode_status |-> "ok", is_final_chunk |-> TRUE]),
     <<START_FLAG, 1, 0, 2, 0, 2, 128, 13, 3, 5>>}

\* frames with a valid header and a whole body that from_message_body
\* rejects: SetDigitalMessageUpdates with byte 2, ChannelInfoRequest with
\* no byte
BadBodyFrames ==
    {<<START_FLAG, 1, 0, 1, 0, 2, 0, 6, 2>>,
     <<START_FLAG, 1, 0, 0, 0, 2, 0, 13>>}

BatchFrames == GoodFrames \cup BadBodyFrames

RECURSIVE Concat(_)
\* b"".join(fs)
Concat(fs) == IF fs = <<>> THEN <<>> ELSE Head(fs) \o Concat(Tail(fs))

\* HTMessageStream(): a fresh decoder, and the batch that will arrive for it
BatchInit ==
    /\ ClientFresh
    /\ CodecIdle
    /\ ReplayIdle
    /\ ConnFresh
    /\ _buffer = <<>>
    /\ sent = [garbage |-> <<>>, msgs |-> <<>>]
    /\ \E k \in 1..MaxBatch :
         \E fs \in [1..k -> BatchFrames] :
            /\ frames = fs
            /\ wire = Concat(fs)
    /\ feeds = 0
    /\ last = [kind |-> "none", messages |-> <<>>]

BatchNext == Feed

BatchSpec == BatchInit /\ [][BatchNext]_vars

-----------------------------------------------------------------------------
(* The replay loop: the rows of a capture, each fed to the decoder of its  *)
(* direction.                                                              *)

\* the data of a row: the first 4 bytes of a frame and its other 5, a whole
\* frame, 9 bytes with no start marker, 2 such bytes and a whole frame, and
\* a header with constant_1 wrong
RowData ==
    {<<START_FLAG, 1, 0, 1>>,
     <<0, 2, 0, 6, 1>>,
     <<START_FLAG, 1, 0, 1, 0, 2, 0, 13, 5>>,
     <<0, 0, 0, 0, 0, 0, 0, 0, 0>>,
     <<0, 0, START_FLAG, 1, 0, 0, 0, 2, 1, 1>>,
     <<START_FLAG, 2, 0, 0, 0, 2, 0, 6>>}

\* the dir column of a row: the two directions and anything else
RowDirs == Dirs \cup {"other"}

\* the match on frame["dir"] with both cases feeding the same decoder
StreamFor_one_decoder(dir) == "phone_to_radio"

\* the match on frame["dir"]: the decoder each direction is fed to
StreamFor(dir) ==
    IF dir = "phone->radio" THEN "phone_to_radio" ELSE "radio_to_phone"

\* phone_to_radio = HTMessageStream(); radio_to_phone = HTMessageStream()
ReplayInit ==
    /\ ClientFresh
    /\ CodecIdle
    /\ StreamIdle
    /\ ConnFresh
    /\ phone_to_radio = <<>>
    /\ radio_to_phone = <<>>
    /\ halted = FALSE
    /\ rows = <<>>

\* one turn of "for frame in reader" for a row of a known direction: the
\* data is fed to that direction's decoder; a ValueError ends the loop
ReplayRow(dir, data) ==
    /\ ~halted
    /\ Len(rows) < MaxRows
    /\ dir \in Dirs
    /\ LET s == StreamFor(dir)
           r == feed(IF s = "phone_to_radio" THEN phone_to_radio ELSE radio_to_phone, data)
       IN  /\ phone_to_radio' = IF s = "phone_to_radio" THEN r.buffer ELSE phone_to_radio
           /\ radio_to_phone' = IF s = "radio_to_phone" THEN r.buffer ELSE radio_to_phone
           /\ halted' = (r.kind # "return")
           /\ rows' = Append(rows, [dir |-> dir, data |-> data,
                                     outcome |-> [kind |-> r.kind, messages |-> r.messages]])
    /\ UNCHANGED <<codec_vars, stream_vars, conn_vars, client_vars>>

\* one turn for a row of any other direction: ValueError("Unknown
\* direction") is raised and caught, and the loop ends with no decoder fed
ReplayUnknownDir(dir, data) ==
    /\ ~halted
    /\ Len(rows) < MaxRows
    /\ dir \notin Dirs
    /\ halted' = TRUE
    /\ rows' = Append(rows, [dir |-> dir, data |-> data,
                             outcome |-> [kind |-> "ValueError", messages |-> <<>>]])
    /\ UNCHANGED <<phone_to_radio, radio_to_phone>>
    /\ UNCHANGED <<codec_vars, stream_vars, conn_vars, client_vars>>

ReplayNext ==
    \/ \E dir \in RowDirs, data \in RowData : ReplayRow(dir, data)
    \/ \E dir \in RowDirs, data \in RowData : ReplayUnknownDir(dir, data)

ReplaySpec == ReplayInit /\ [][ReplayNext]_vars

-----------------------------------------------------------------------------
(* AudioConnection driven by its callers and by the link.                  *)

ConnInit ==
    /\ ClientFresh
    /\ CodecIdle
    /\ StreamIdle
    /\ ReplayIdle
    /\ ConnFresh

\* the calls whose on_ack is registered and that have not returned
InFlight == {c \in Calls : pc[c] \in {"sending", "waiting"}}

\* connect(): the link is given on_msg.  A connection that was disconnected
\* is not connected again.
Connect ==
    /\ link_callback = "none"
    /\ ~disconnected
    /\ link_callback' = "on_msg"
    /\ UNCHANGED <<_handlers, pc, reply, queue, out, gone, disconnected, log, reg_at, overlapped, dispatch>>
    /\ UNCHANGED <<codec_vars, stream_vars, replay_vars, client_vars>>

\* the user callbacks whose on_message is in the list
Registered(hs) == {h \in EventHandlers : \E k \in 1..Len(hs) : hs[k] = OnMessage(h)}

\* register_event_handler(h): on_message is appended.  Each callback is
\* registered once, in the order of the callbacks' numbers.
RegisterEventHandler(h) ==
    /\ h \notin Registered(_handlers) \cup gone
    /\ \A g \in EventHandlers : g < h => g \in Registered(_handlers) \cup gone
    /\ _handlers' = append_handler(_handlers, OnMessage(h))
    /\ UNCHANGED <<link_callback, pc, reply, queue, out, gone, disconnected, log, reg_at, overlapped, dispatch>>
    /\ UNCHANGED <<codec_vars, stream_vars, replay_vars, client_vars>>

\* the function register_event_handler(h) returned is called, outside on_msg
UnregisterEventHandler(h) ==
    /\ h \in Registered(_handlers)
    /\ _handlers' = remove_handler(_handlers, OnMessage(h))
    /\ gone' = gone \cup {h}
    /\ UNCHANGED <<link_callback, pc, reply, queue, out, disconnected, log, reg_at, overlapped, dispatch>>
    /\ UNCHANGED <<codec_vars, stream_vars, replay_vars, client_vars>>

\* _send_message_expect_reply(msg, cls) up to "await self._send_message(msg)":
\* the queue is made, on_ack is registered, the send is started.  The calls
\* are made in the order of their numbers.
SendExpectReply(c, cls) ==
    /\ pc[c] = "idle"
    /\ \A d \in Calls : d < c => pc[d] # "idle"
    /\ reply' = [reply EXCEPT ![c] = cls]
    /\ queue' = [queue EXCEPT ![c] = <<>>]
    /\ _handlers' = append_handler(_handlers, OnAck(c))
    /\ pc' = [pc EXCEPT ![c] = "sending"]
    /\ reg_at' = [reg_at EXCEPT ![c] = Len(log)]
    /\ overlapped' = IF \E d \in InFlight : reply[d] = cls
                     THEN overlapped \cup {c} \cup {d \in InFlight : reply[d] = cls}
                     ELSE overlapped
    /\ UNCHANGED <<link_callback, out, gone, disconnected, log, dispatch>>
    /\ UNCHANGED <<codec_vars, stream_vars, replay_vars, client_vars>>

\* "out = await queue.get(); remove_handler(); return out" with an item queued
Return(c) ==
    /\ out' = [out EXCEPT ![c] = Head(queue[c])]
    /\ queue' = [queue EXCEPT ![c] = Tail(@)]
    /\ _handlers' = remove_handler(_handlers, OnAck(c))
    /\ pc' = [pc EXCEPT ![c] = "done"]

\* the send completes; queue.get() returns at once if an item is queued and
\* suspends the caller otherwise
SendDone(c) ==
    /\ pc[c] = "sending"
    /\ IF queue[c] # <<>>
       THEN Return(c)
       ELSE /\ pc' = [pc EXCEPT ![c] = "waiting"]
            /\ UNCHANGED <<_handlers, queue, out>>
    /\ UNCHANGED <<link_callback, reply, gone, disconnected, log, reg_at, overlapped, dispatch>>
    /\ UNCHANGED <<codec_vars, stream_vars, replay_vars, client_vars>>

\* the caller suspended in queue.get() is resumed after a put_nowait
Resume(c) ==
    /\ pc[c] = "waiting"
    /\ queue[c] # <<>>
    /\ Return(c)
    /\ UNCHANGED <<link_callback, reply, gone, disconnected, log, reg_at, overlapped, dispatch>>
    /\ UNCHANGED <<codec_vars, stream_vars, replay_vars, client_vars>>

\* the link calls on_msg with a message of class cls; beh is what each user
\* callback does if called for it.  Nothing in on_msg or connect() changes
\* the link when a handler raises: the link goes on delivering.
LinkDeliver(cls, beh) ==
    /\ link_callback = "on_msg"
    /\ Len(log) < MaxMessages
    /\ LET proto == [p_class |-> "p." \o cls, n |-> Len(log) + 1]
           r == on_msg(proto, _handlers, queue, reply, beh)
       IN  /\ _handlers' = r.handlers
           /\ queue' = r.queues
           /\ gone' = gone \cup (Registered(_handlers) \ Registered(r.handlers))
           /\ log' = Append(log, audio_message_from_protocol(proto))
           /\ dispatch' = [msg |-> audio_message_from_protocol(proto),
                           before |-> _handlers, after |-> r.handlers,
                           invoked |-> r.invoked, raised_by |-> r.raised_by,
                           propagated |-> r.propagated]
    /\ UNCHANGED <<link_callback, pc, reply, out, disconnected, reg_at, overlapped>>
    /\ UNCHANGED <<codec_vars, stream_vars, replay_vars, client_vars>>

\* the link's disconnect(), as the specification describes the transport:
\* it is torn down and holds no callback any more
link_disconnect(callback) == "none"

\* disconnect() that returns without the link having been told
Disconnect_without_link ==
    /\ link_callback = "on_msg"
    /\ disconnected' = TRUE
    /\ UNCHANGED <<_handlers, link_callback, pc, reply, queue, out, gone, log, reg_at, overlapped, dispatch>>
    /\ UNCHANGED <<codec_vars, stream_vars, replay_vars, client_vars>>

\* disconnect(): await self._link.disconnect()
Disconnect ==
    /\ link_callback = "on_msg"
    /\ link_callback' = link_disconnect(link_callback)
    /\ disconnected' = TRUE
    /\ UNCHANGED <<_handlers, pc, reply, queue, out, gone, log, reg_at, overlapped, dispatch>>
    /\ UNCHANGED <<codec_vars, stream_vars, replay_vars, client_vars>>

\* "await self._send_message(msg)" raises: the error leaves
\* _send_message_expect_reply from that line
SendRaises(c) ==
    /\ pc[c] = "sending"
    /\ pc' = [pc EXCEPT ![c] = "failed"]
    /\ UNCHANGED <<_handlers, link_callback, reply, queue, out, gone, disconnected, log, reg_at, overlapped, dispatch>>
    /\ UNCHANGED <<codec_vars, stream_vars, replay_vars, client_vars>>

\* the caller's task is cancelled (asyncio.wait_for timing out, say) while
\* it is suspended in "await queue.get()": CancelledError leaves
\* _send_message_expect_reply from that line
Cancel(c) ==
    /\ pc[c] = "waiting"
    /\ pc' = [pc EXCEPT ![c] = "cancelled"]
    /\ UNCHANGED <<_handlers, link_callback, reply, queue, out, gone, disconnected, log, reg_at, overlapped, dispatch>>
    /\ UNCHANGED <<codec_vars, stream_vars, replay_vars, client_vars>>

ConnNext ==
    \/ Connect
    \/ Disconnect
    \/ \E c \in Calls : SendRaises(c)
    \/ \E c \in Calls : Cancel(c)
    \/ \E h \in EventHandlers : RegisterEventHandler(h)
    \/ \E h \in EventHandlers : UnregisterEventHandler(h)
    \/ \E c \in Calls, cls \in Classes : SendExpectReply(c, cls)
    \/ \E c \in Calls : SendDone(c)
    \/ \E c \in Calls : Resume(c)
    \/ \E cls \in Classes, beh \in [EventHandlers -> Behaviours] : LinkDeliver(cls, beh)

ConnSpec == ConnInit /\ [][ConnNext]_vars

-----------------------------------------------------------------------------
(* Properties of the codec, stated for CodecSpec.                          *)

\* the drawn value went through to_message_body and from_message_body
BodyRoundTripRan == value # NoMessage /\ stage \notin {"value", "body"}

\* the drawn value went through encode_ht_message and decode_ht_message
FrameRoundTripRan == value # NoMessage /\ stage \in {"decoded", "reencoded"}

\* decode_ht_message ran on the frame
DecodeRan == stage \in {"decoded", "reencoded"}

\* C3 (as claimed): for every value of a known variant, the variant's body
\* decoder applied to the body its body encoder produced returns the value
\* itself, equal in every field.
C3_BodyRoundTrip ==
    (BodyRoundTripRan /\ value.tag # "UnknownMessage")
        => (body_decoded.kind = "return" /\ body_decoded.msg = value)

\* C4 (as claimed): for every UnknownMessage value, whatever its two-byte type
\* id, decoding its encoding returns the same UnknownMessage and an empty
\* remainder, and does not raise.
C4_UnknownRoundTripAnyId ==
    (FrameRoundTripRan /\ value.tag = "UnknownMessage")
        => decoded = Returned(value, <<>>)

\* C4 (amended): for every UnknownMessage value whose type id is not one of
\* the four ids that decode_ht_message dispatches to a known variant, decoding
\* its encoding returns the same UnknownMessage (same type id, same data) and
\* an empty remainder, and does not raise.
C4_UnknownRoundTrip ==
    (FrameRoundTripRan /\ value.tag = "UnknownMessage"
        /\ value.message_type_id \notin DispatchedTypeIds)
        => decoded = Returned(value, <<>>)

C4_Witness ==
    /\ FrameRoundTripRan
    /\ value.tag = "UnknownMessage"
    /\ value.message_type_id = <<1, 1>>
    /\ Len(value.data) = MaxData
    /\ decoded.kind = "return"
    /\ decoded.msg.tag = "UnknownMessage"

\* C5 (as claimed): whenever decode_ht_message returns a message for a frame,
\* encoding that message gives a frame whose header bytes 6..7 (the type id)
\* are those of the decoded frame.
C5_TypeIdPreserved ==
    (stage = "reencoded")
        => <<reencoded[7], reencoded[8]>> = <<frame[7], frame[8]>>

\* the frame has the header constants right and its whole body present
WellFormed(f) ==
    /\ Len(f) >= HEADER_LEN
    /\ f[1] = START_FLAG /\ f[2] = 1 /\ f[3] = 0 /\ f[5] = 0 /\ f[6] = 2
    /\ f[4] <= Len(f) - HEADER_LEN

\* C6: for every frame with valid header constants, a complete body and a
\* type id that is not dispatched to a known variant, decode_ht_message
\* returns an UnknownMessage holding exactly the frame's two id bytes and
\* exactly the frame's body, for every body length, and does not raise.
C6_UnknownIdsDecode ==
    (DecodeRan /\ WellFormed(frame) /\ <<frame[7], frame[8]>> \notin DispatchedTypeIds)
        => /\ decoded.kind = "return"
           /\ decoded.msg = [tag |-> "UnknownMessage",
                             message_type_id |-> <<frame[7], frame[8]>>,
                             data |-> SubSeq(frame, HEADER_LEN + 1, HEADER_LEN + frame[4])]

C6_Witness ==
    /\ DecodeRan
    /\ value = NoMessage
    /\ WellFormed(frame)
    /\ <<frame[7], frame[8]>> = <<1, 1>>
    /\ frame[4] = MaxTail
    /\ decoded.kind = "return"
    /\ decoded.msg.tag = "UnknownMessage"
    /\ Len(decoded.msg.data) = MaxTail

\* the buffer holds a header that starts with the start marker and has one of
\* constant_1, reserved_1, reserved_2, constant_2 wrong
CorruptHeader(f) ==
    /\ Len(f) >= HEADER_LEN
    /\ f[1] = START_FLAG
    /\ (f[2] # 1 \/ f[3] # 0 \/ f[5] # 0 \/ f[6] # 2)

\* C7: for every buffer of at least 8 bytes that starts with 0xFF and has a
\* wrong constant_1, reserved_1, reserved_2 or constant_2, decode_ht_message
\* raises HeaderDecodeError: it neither decodes the body nor answers
\* "need more data", also when fewer than body_length bytes follow the header.
C7_CorruptHeaderRaises ==
    (DecodeRan /\ CorruptHeader(frame)) => decoded.kind = "HeaderDecodeError"

C7_Witness ==
    /\ DecodeRan
    /\ CorruptHeader(frame)
    /\ frame[5] # 0
    /\ frame[4] > Len(frame) - HEADER_LEN
    /\ decoded.kind = "HeaderDecodeError"

\* the buffer holds a whole header with every constant field right
ValidHeader(f) ==
    /\ Len(f) >= HEADER_LEN
    /\ f[1] = START_FLAG /\ f[2] = 1 /\ f[3] = 0 /\ f[5] = 0 /\ f[6] = 2

\* C14 (as claimed): when decode_ht_message is given a buffer with a valid
\* 8-byte header whose body_length exceeds the bytes that follow the header,
\* it returns "need more data" (None) together with the whole input buffer,
\* header included.
C14_NeedMoreDataKeepsBuffer ==
    (DecodeRan /\ ValidHeader(frame) /\ frame[4] > Len(frame) - HEADER_LEN)
        => decoded = Returned(NoMessage, frame)

-----------------------------------------------------------------------------
(* Properties of the stream decoder, stated for StreamSpec.                *)

\* feed returned exactly the list ms, raising nothing
FeedReturned(ms) == last = [kind |-> "return", messages |-> ms]

\* C1 (as claimed): when encode(msg) alone is fed to a fresh decoder in
\* consecutive non-empty chunks, every feed call that ends before the last
\* byte returns [], and the call that supplies the last byte returns [msg].
C1_PartialDelivery ==
    (sent.garbage = <<>> /\ Len(sent.msgs) = 1 /\ feeds > 0)
        => IF wire # <<>> THEN FeedReturned(<<>>) ELSE FeedReturned(sent.msgs)

\* C2 (as claimed): when a garbage prefix whose first byte is not 0xFF,
\* followed by encode(msg), is fed to a fresh decoder in one call, the call
\* returns exactly [msg] and raises nothing.
C2_Resync ==
    (/\ sent.garbage # <<>>
     /\ sent.garbage[1] # START_FLAG
     /\ Len(sent.msgs) = 1
     /\ feeds = 1
     /\ wire = <<>>)
        => FeedReturned(sent.msgs)

-----------------------------------------------------------------------------
(* Properties of the replay loop, stated for ReplaySpec.                   *)

\* the rows read for direction d, in order
RowsOf(d) == LET IsOfDir(r) == r.dir = d IN SelectSeq(rows, IsOfDir)

RECURSIVE RunAlone(_, _)
\* what feed gives, call after call, on a decoder of its own whose buffer is
\* buf and that is fed the data of the rows rs and nothing else
RunAlone(buf, rs) ==
    IF rs = <<>> THEN <<>>
    ELSE LET r == feed(buf, Head(rs).data)
         IN  <<[kind |-> r.kind, messages |-> r.messages]>> \o RunAlone(r.buffer, Tail(rs))

\* C13: for each direction, the messages (or the error) that each feed call
\* of that direction gave are those a decoder gives that is fed that
\* direction's data alone, in the same order: the rows of the other direction
\* read in between, whether they are discarded as garbage or leave a partial
\* frame buffered there, change nothing.
C13_DirectionsIndependent ==
    \A d \in Dirs :
        [i \in 1..Len(RowsOf(d)) |-> RowsOf(d)[i].outcome] = RunAlone(<<>>, RowsOf(d))

C13_Witness ==
    \E i, j, k \in 1..Len(rows) :
        /\ i < j /\ j < k
        /\ rows[i].dir = "radio->phone" /\ rows[k].dir = "radio->phone"
        /\ rows[j].dir = "phone->radio"
        /\ rows[i].outcome.messages = <<>>
        /\ rows[k].outcome.messages # <<>>
        /\ phone_to_radio # <<>>
        /\ radio_to_phone = <<>>

-----------------------------------------------------------------------------
(* Properties of the stream decoder, stated for BatchSpec.                 *)

\* the whole batch was given to the fresh decoder in a single feed call
FedWhole == feeds = 1 /\ wire = <<>>

\* C15 (as claimed): when a whole frame with a valid header has a body that
\* the decoder of its class rejects, BodyDecodeError leaves feed and the
\* frame's header and body are removed from the buffer, which then holds the
\* bytes that followed the frame.
C15_BodyErrorConsumesFrame ==
    (FedWhole /\ frames[1] \in BadBodyFrames)
        => /\ last.kind = "BodyDecodeError"
           /\ _buffer = Concat(Tail(frames))

\* f alone decodes to a message with nothing left over
Decodable(f) ==
    LET r == decode_ht_message(f)
    IN  r.kind = "return" /\ r.msg # NoMessage /\ r.rest = <<>>

\* C16: a fresh decoder fed the concatenation of k >= 1 whole frames, each
\* decodable alone, in one feed call returns exactly k messages, the i-th
\* being what the i-th frame decodes to, and its buffer is left empty; the
\* decode of the i-th frame takes exactly that frame's 8 + body_length bytes
\* and returns the frames that follow it unchanged.
C16_BatchDecodes ==
    (FedWhole /\ \A i \in 1..Len(frames) : Decodable(frames[i]))
        => /\ last = [kind |-> "return",
                      messages |-> [i \in 1..Len(frames) |-> decode_ht_message(frames[i]).msg]]
           /\ _buffer = <<>>
           /\ \A i \in 1..Len(frames) :
                 /\ HEADER_LEN + frames[i][4] = Len(frames[i])
                 /\ decode_ht_message(Concat(SubSeq(frames, i, Len(frames)))).rest
                        = Concat(SubSeq(frames, i + 1, Len(frames)))

C16_Witness ==
    /\ FedWhole
    /\ Len(frames) = MaxBatch
    /\ \A i \in 1..Len(frames) : Decodable(frames[i])
    /\ frames[1] # frames[Len(frames)]
    /\ frames[1][4] > 0
    /\ Len(last.messages) = MaxBatch

\* the bytes of the batch's first i frames have left the buffer
FrameRemoved(i) ==
    Len(Concat(frames)) - Len(_buffer) >= Len(Concat(SubSeq(frames, 1, i)))

\* C21 (as claimed): every whole valid frame whose bytes a feed call removes
\* from the buffer is returned as a message by that call, also when a frame
\* after it makes the same call raise a decode error.
C21_NoDroppedFrame ==
    FedWhole =>
        \A i \in 1..Len(frames) :
            (Decodable(frames[i]) /\ FrameRemoved(i))
                => /\ i <= Len(last.messages)
                   /\ last.messages[i] = decode_ht_message(frames[i]).msg

-----------------------------------------------------------------------------
(* Properties of AudioConnection, stated for ConnSpec.                     *)

\* handler h was in the list when the last on_msg run ended
StillRegistered(h) == \E k \in 1..Len(dispatch.after) : dispatch.after[k] = h

\* handler h was called in the last on_msg run
WasInvoked(h) == \E k \in 1..Len(dispatch.invoked) : dispatch.invoked[k] = h

\* C8 (as claimed): in every run of on_msg, the handlers that are in the list
\* from the start of the run to its end are each called exactly once with the
\* message, in the order of the list, also when another handler removes
\* itself from the list during the run.
C8_FanOut ==
    (dispatch.msg # NoAudio)
        => SelectSeq(dispatch.invoked, StillRegistered)
             = SelectSeq(dispatch.before, StillRegistered)

\* C9 (as claimed): when a handler raises in a run of on_msg, the handlers
\* after it in the list are still called with the message and the error does
\* not leave on_msg.
C9_FailureIsolated ==
    (dispatch.raised_by # NoHandler)
        => /\ ~dispatch.propagated
           /\ \A k \in 1..Len(dispatch.before) :
                (\E j \in 1..(k - 1) : dispatch.before[j] = dispatch.raised_by)
                    => WasInvoked(dispatch.before[k])

\* the positions in log of the messages of call c's reply class that on_msg
\* was given after c registered on_ack
LaterMatches(c) == {k \in (reg_at[c] + 1)..Len(log) : log[k].class = reply[c]}

\* C10 (as claimed): a finished call that was never in flight together with
\* a call for the same class returned the first message of its reply class
\* that on_msg was given after the call registered on_ack, and so no message
\* given to on_msg before that.
C10_FirstLaterReply ==
    \A c \in Calls :
        (pc[c] = "done" /\ c \notin overlapped)
            => /\ LaterMatches(c) # {}
               /\ out[c] = log[CHOOSE k \in LaterMatches(c) : \A j \in LaterMatches(c) : k <= j]
               /\ out[c].n > reg_at[c]

\* the messages call c holds: those in its queue and the one it returned
Received(c) == {queue[c][k] : k \in 1..Len(queue[c])} \cup ({out[c]} \ {NoAudio})

\* C11 (as claimed): when two calls awaiting the same class are in flight
\* together, a message of that class is received by only one of them: no
\* message is held by two calls.
C11_OnlyOneReceives ==
    \A c, d \in Calls : c # d => Received(c) \cap Received(d) = {}

\* the step is a run of on_msg
Dispatched == log' # log

\* C11 (amended): in every run of on_msg, the message is put in the queue of
\* every call whose on_ack is called and whose reply class it has, whatever
\* other calls await the same class: nothing reserves it for one of them.
C11_EveryCalledReceives ==
    [][Dispatched =>
        \A c \in Calls :
            (/\ \E k \in 1..Len(dispatch'.invoked) : dispatch'.invoked[k] = OnAck(c)
             /\ dispatch'.msg.class = reply[c])
                => queue'[c] = Append(queue[c], dispatch'.msg)]_vars

C11_Witness ==
    \E c, d \in Calls :
        /\ c # d
        /\ {c, d} \subseteq overlapped
        /\ pc[c] = "done" /\ pc[d] = "done"
        /\ out[c] = out[d]
        /\ out[c] # NoAudio

MatchesSince(c) ==
    LET IsReply(m) == m.class = reply[c]
    IN  SelectSeq(SubSeq(log, reg_at[c] + 1, Len(log)), IsReply)

\* C17 (as claimed): on_ack is registered before the send starts, and every
\* message of the reply class that on_msg is given from then on, also while
\* the send is still under way, is kept in the call's queue until the call
\* takes it.
C17_NoLostReply ==
    \A c \in InFlight :
        /\ \E k \in 1..Len(_handlers) : _handlers[k] = OnAck(c)
        /\ queue[c] = MatchesSince(c)

\* hs without handler h, the others in their order
Without(hs, h) == LET Other(x) == x # h IN SelectSeq(hs, Other)

\* C18: the step in which a call returns its reply removes the call's on_ack
\* and leaves every other registration in place and in order; after it the
\* call's on_ack is never in the list again and nothing is put in the queue
\* of the finished call.
C18_TransientRemoved ==
    [][\A c \in Calls :
        /\ (pc[c] # "done" /\ pc'[c] = "done")
              => /\ _handlers' = Without(_handlers, OnAck(c))
                 /\ Len(_handlers') = Len(_handlers) - 1
        /\ (pc[c] = "done")
              => /\ \A k \in 1..Len(_handlers') : _handlers'[k] # OnAck(c)
                 /\ queue'[c] = queue[c]
                 /\ out'[c] = out[c]]_vars

C18_Witness ==
    \E c \in Calls :
        /\ pc[c] = "done"
        /\ dispatch.msg.class = reply[c]
        /\ dispatch.msg.n > out[c].n
        /\ Len(dispatch.before) >= 2
        /\ \A k \in 1..Len(dispatch.before) : dispatch.before[k] # OnAck(c)
        /\ queue[c] = <<>>

\* C19 (as claimed): in every run of on_msg made while a call is suspended
\* waiting for its reply, every handler registered besides that call's
\* on_ack is called with the message.
C19_SuspensionDoesNotBlock ==
    [][(Dispatched /\ \E c \in Calls : pc[c] = "waiting") =>
        \A k \in 1..Len(_handlers) :
            \E j \in 1..Len(dispatch'.invoked) : dispatch'.invoked[j] = _handlers[k]]_vars

\* C20 (as claimed): in every reachable state an on_ack is in the handler
\* list only for a call that is still in flight: once a call has returned,
\* its send has raised or its caller was cancelled, its on_ack is gone.
C20_NoLeakedTransient ==
    \A c \in Calls :
        (\E k \in 1..Len(_handlers) : _handlers[k] = OnAck(c)) => c \in InFlight

-----------------------------------------------------------------------------
(* RadioClient: connect(), disconnect(), the cached-state accessors and    *)
(* setters and the battery queries.  Every "await self._conn...." either   *)
(* returns or raises; other calls on the client run while one is suspended *)
(* in its await; connect() and disconnect() are called one at a time.      *)

\* how an awaited call on the connection ends
Outcomes == {"return", "raise"}

\* the properties that return cached state
Accessors == {"packet_settings", "settings", "device_info", "channels"}

\* the setters of cached state
Setters == {"set_packet_settings", "set_settings", "set_channel"}

\* the battery queries
BatteryQueries ==
    {"battery_voltage", "battery_level", "battery_level_as_percentage", "rc_battery_level"}

\* what connect() does before it sets _is_connected
AllSteps == {"opened", "device_info", "channels", "settings", "packet_settings", "registered"}

\* _assert_conn with the test left out
_assert_conn_never_raises(is_connected) == "ok"

\* _assert_conn(): raise ValueError("Not connected") if not self._is_connected
_assert_conn(is_connected) == IF is_connected THEN "ok" ELSE "Not connected"

ClientInit ==
    /\ CodecIdle
    /\ StreamIdle
    /\ ReplayIdle
    /\ ConnFresh
    /\ ClientFresh

\* connect() is called: it suspends in "await self._conn.connect()"
ClientConnect ==
    /\ life = "idle"
    /\ connects < MaxConnects
    /\ life' = "connect"
    /\ connects' = connects + 1
    /\ UNCHANGED <<_is_connected, _conn, _device_info, _channels, _settings, _packet_settings,
                   _message_handler_unsubscribe, setter, steps, ended, call>>
    /\ UNCHANGED <<codec_vars, stream_vars, replay_vars, conn_vars>>

\* connect() leaves through an error raised by the call it awaits
ConnectRaises ==
    /\ life' = "idle"
    /\ ended' = "connect raised"
    /\ UNCHANGED <<_is_connected, _conn, _device_info, _channels, _settings, _packet_settings,
                   _message_handler_unsubscribe, steps>>

\* "await self._conn.connect()" ends; connect() goes on into _hydrate() up
\* to "await self._conn.get_device_info()"
ConnOpened(outcome) ==
    /\ life = "connect"
    /\ IF outcome = "raise" THEN ConnectRaises
       ELSE /\ _conn' = [_conn EXCEPT !.open = TRUE]
            /\ steps' = steps \cup {"opened"}
            /\ life' = "get_device_info"
            /\ UNCHANGED <<_is_connected, _device_info, _channels, _settings, _packet_settings,
                           _message_handler_unsubscribe, ended>>
    /\ UNCHANGED <<setter, connects, call>>
    /\ UNCHANGED <<codec_vars, stream_vars, replay_vars, conn_vars>>

\* _hydrate: get_device_info() ends; self._channels = []; the loop over
\* range(channel_count) starts
GetDeviceInfo(outcome, channel_count) ==
    /\ life = "get_device_info"
    /\ IF outcome = "raise" THEN ConnectRaises
       ELSE /\ _device_info' = [tag |-> "DeviceInfo", channel_count |-> channel_count]
            /\ _channels' = <<>>
            /\ steps' = steps \cup {"device_info"}
                            \cup (IF channel_count = 0 THEN {"channels"} ELSE {})
            /\ life' = IF channel_count = 0 THEN "get_settings" ELSE "get_channel"
            /\ UNCHANGED <<_is_connected, _conn, _settings, _packet_settings,
                           _message_handler_unsubscribe, ended>>
    /\ UNCHANGED <<setter, connects, call>>
    /\ UNCHANGED <<codec_vars, stream_vars, replay_vars, conn_vars>>

\* _hydrate: get_channel(i) ends and the channel is appended
GetChannel(outcome) ==
    /\ life = "get_channel"
    /\ IF outcome = "raise" THEN ConnectRaises
       ELSE LET last_one == Len(_channels) + 1 >= _device_info.channel_count
            IN  /\ _channels' = Append(_channels, "hydrated")
                /\ steps' = steps \cup (IF last_one THEN {"channels"} ELSE {})
                /\ life' = IF last_one THEN "get_settings" ELSE "get_channel"
                /\ UNCHANGED <<_is_connected, _conn, _device_info, _settings, _packet_settings,
                               _message_handler_unsubscribe, ended>>
    /\ UNCHANGED <<setter, connects, call>>
    /\ UNCHANGED <<codec_vars, stream_vars, replay_vars, conn_vars>>

\* _hydrate: get_settings() ends
GetSettings(outcome) ==
    /\ life = "get_settings"
    /\ IF outcome = "raise" THEN ConnectRaises
       ELSE /\ _settings' = "hydrated"
            /\ steps' = steps \cup {"settings"}
            /\ life' = "get_packet_settings"
            /\ UNCHANGED <<_is_connected, _conn, _device_info, _channels, _packet_settings,
                           _message_handler_unsubscribe, ended>>
    /\ UNCHANGED <<setter, connects, call>>
    /\ UNCHANGED <<codec_vars, stream_vars, replay_vars, conn_vars>>

\* _hydrate: get_packet_settings() ends; back in connect(), with no await
\* in between, _on_event_message is registered and _is_connected is set
GetPacketSettings(outcome) ==
    /\ life = "get_packet_settings"
    /\ IF outcome = "raise" THEN ConnectRaises
       ELSE /\ _packet_settings' = "hydrated"
            /\ _conn' = [_conn EXCEPT !.handlers = @ + 1]
            /\ _message_handler_unsubscribe' = "live"
            /\ steps' = steps \cup {"packet_settings", "registered"}
            /\ _is_connected' = TRUE
            /\ life' = "idle"
            /\ ended' = "connect returned"
            /\ UNCHANGED <<_device_info, _channels, _settings>>
    /\ UNCHANGED <<setter, connects, call>>
    /\ UNCHANGED <<codec_vars, stream_vars, replay_vars, conn_vars>>

\* disconnect() is called: self._message_handler_unsubscribe() and then it
\* suspends in "await self._conn.disconnect()".  With the attribute never
\* assigned the call raises AttributeError; calling the unregister function
\* a second time either raises or does nothing (again_raises).
ClientDisconnect(again_raises) ==
    /\ life = "idle"
    /\ IF \/ _message_handler_unsubscribe = "unset"
          \/ (_message_handler_unsubscribe = "called" /\ again_raises)
       THEN /\ ended' = "disconnect raised"
            /\ UNCHANGED <<_conn, _message_handler_unsubscribe, life>>
       ELSE /\ _conn' = IF _message_handler_unsubscribe = "live"
                        THEN [_conn EXCEPT !.handlers = @ - 1]
                        ELSE _conn
            /\ _message_handler_unsubscribe' = "called"
            /\ life' = "disconnect"
            /\ UNCHANGED ended
    /\ UNCHANGED <<_is_connected, _device_info, _channels, _settings, _packet_settings,
                   setter, connects, steps, call>>
    /\ UNCHANGED <<codec_vars, stream_vars, replay_vars, conn_vars>>

\* "await self._conn.disconnect()" ends; self._is_connected = False
DisconnectDone(outcome) ==
    /\ life = "disconnect"
    /\ life' = "idle"
    /\ IF outcome = "raise"
       THEN /\ ended' = "disconnect raised"
            /\ UNCHANGED <<_is_connected, _conn, steps>>
       ELSE /\ _conn' = [_conn EXCEPT !.open = FALSE]
            /\ _is_connected' = FALSE
            /\ steps' = {}
            /\ ended' = "disconnect returned"
    /\ UNCHANGED <<_device_info, _channels, _settings, _packet_settings,
                   _message_handler_unsubscribe, setter, connects, call>>
    /\ UNCHANGED <<codec_vars, stream_vars, replay_vars, conn_vars>>

\* the property op is read: self._assert_conn(); return self._<op>
Accessor(op) ==
    /\ call' = [op |-> op, connected |-> _is_connected,
                result |-> IF _assert_conn(_is_connected) = "ok" THEN "value"
                           ELSE _assert_conn(_is_connected),
                contacted |-> FALSE, changed |-> FALSE]
    /\ UNCHANGED <<_is_connected, _conn, _device_info, _channels, _settings, _packet_settings,
                   _message_handler_unsubscribe, life, setter, connects, steps, ended>>
    /\ UNCHANGED <<codec_vars, stream_vars, replay_vars, conn_vars>>

\* a battery query: self._assert_conn(); return await self._conn.get_...()
BatteryQuery(op, outcome) ==
    /\ call' = [op |-> op, connected |-> _is_connected,
                result |-> IF _assert_conn(_is_connected) = "ok" THEN outcome
                           ELSE _assert_conn(_is_connected),
                contacted |-> (_assert_conn(_is_connected) = "ok"), changed |-> FALSE]
    /\ UNCHANGED <<_is_connected, _conn, _device_info, _channels, _settings, _packet_settings,
                   _message_handler_unsubscribe, life, setter, connects, steps, ended>>
    /\ UNCHANGED <<codec_vars, stream_vars, replay_vars, conn_vars>>

\* a setter is called: self._assert_conn(); the new value is made from the
\* cached one (self._channels[channel_id] raises IndexError past the end);
\* the call suspends in "await self._conn.set_...(new)"
SetterCall(op, channel_id) ==
    /\ setter = NoSetter
    /\ LET check == _assert_conn(_is_connected)
           index_error == op = "set_channel" /\ channel_id >= Len(_channels)
       IN  /\ setter' = IF check = "ok" /\ ~index_error
                         THEN [op |-> op, channel_id |-> channel_id, connected |-> _is_connected]
                         ELSE NoSetter
           /\ call' = [op |-> op, connected |-> _is_connected,
                       result |-> IF check # "ok" THEN check
                                  ELSE IF index_error THEN "IndexError" ELSE "suspended",
                       contacted |-> (check = "ok" /\ ~index_error), changed |-> FALSE]
    /\ UNCHANGED <<_is_connected, _conn, _device_info, _channels, _settings, _packet_settings,
                   _message_handler_unsubscribe, life, connects, steps, ended>>
    /\ UNCHANGED <<codec_vars, stream_vars, replay_vars, conn_vars>>

\* the setter's await ends: on return the new value is assigned to the
\* cached attribute; on a raise nothing is assigned
SetterDone(outcome) ==
    /\ setter # NoSetter
    /\ setter' = NoSetter
    /\ _packet_settings' = IF outcome = "return" /\ setter.op = "set_packet_settings"
                            THEN "updated" ELSE _packet_settings
    /\ _settings' = IF outcome = "return" /\ setter.op = "set_settings"
                     THEN "updated" ELSE _settings
    /\ _channels' = IF /\ outcome = "return"
                        /\ setter.op = "set_channel"
                        /\ setter.channel_id < Len(_channels)
                     THEN [_channels EXCEPT ![setter.channel_id + 1] = "updated"]
                     ELSE _channels
    /\ UNCHANGED <<_is_connected, _conn, _device_info, _message_handler_unsubscribe, life,
                   connects, steps, ended, call>>
    /\ UNCHANGED <<codec_vars, stream_vars, replay_vars, conn_vars>>

\* the open connection calls _on_event_message with a SettingsChangedEvent
\* (channel_id = -1) or a ChannelChangedEvent for a cached channel
OnEventMessage(channel_id) ==
    /\ _conn.open
    /\ _conn.handlers > 0
    /\ channel_id < Len(_channels)
    /\ _settings' = IF channel_id = -1 THEN "updated" ELSE _settings
    /\ _channels' = IF channel_id >= 0
                     THEN [_channels EXCEPT ![channel_id + 1] = "updated"]
                     ELSE _channels
    /\ UNCHANGED <<_is_connected, _conn, _device_info, _packet_settings,
                   _message_handler_unsubscribe, life, setter, connects, steps, ended, call>>
    /\ UNCHANGED <<codec_vars, stream_vars, replay_vars, conn_vars>>

ClientNext ==
    \/ ClientConnect
    \/ \E outcome \in Outcomes : ConnOpened(outcome)
    \/ \E outcome \in Outcomes, n \in 0..MaxChannels : GetDeviceInfo(outcome, n)
    \/ \E outcome \in Outcomes : GetChannel(outcome)
    \/ \E outcome \in Outcomes : GetSettings(outcome)
    \/ \E outcome \in Outcomes : GetPacketSettings(outcome)
    \/ \E again_raises \in BOOLEAN : ClientDisconnect(again_raises)
    \/ \E outcome \in Outcomes : DisconnectDone(outcome)
    \/ \E op \in Accessors : Accessor(op)
    \/ \E op \in BatteryQueries, outcome \in Outcomes : BatteryQuery(op, outcome)
    \/ \E op \in Setters, id \in 0..MaxChannels : SetterCall(op, id)
    \/ \E outcome \in Outcomes : SetterDone(outcome)
    \/ \E id \in (-1)..(MaxChannels - 1) : OnEventMessage(id)

ClientSpec == ClientInit /\ [][ClientNext]_vars

-----------------------------------------------------------------------------
(* Properties of RadioClient, stated for ClientSpec.                       *)

\* C22: _is_connected is true only when connect() has opened the connection,
\* hydrated device info, channels, settings and packet settings and
\* registered _on_event_message, and it is false when the last connect() or
\* disconnect() call to end was a disconnect() that returned; every accessor,
\* setter and battery query called while _is_connected is false raises
\* "Not connected", sends nothing to the radio and changes no cached value,
\* and no setter called then is left to assign one later.
C22_ConnectionGuard ==
    /\ _is_connected => steps = AllSteps
    /\ (ended = "disconnect returned") => ~_is_connected
    /\ (call.op # "none" /\ ~call.connected)
          => /\ call.result = "Not connected"
             /\ ~call.contacted
             /\ ~call.changed
    /\ (setter # NoSetter) => setter.connected

C22_Witness ==
    /\ ended = "disconnect returned"
    /\ ~_is_connected
    /\ _settings = "updated"
    /\ Len(_channels) = MaxChannels
    /\ call.op = "set_channel"
    /\ ~call.connected
    /\ call.result = "Not connected"

=============================================================================
